---- MODULE Spec2Model ----
(***************************************************************************)
(* Model of vscan-form-field-analyzer (src/main.py).                       *)
(*                                                                         *)
(* Strings whose characters the code inspects (the value attribute, the    *)
(* URL) are sequences of one-character strings; strings the code only      *)
(* compares as a whole (name, type, autocomplete, placeholder, messages)   *)
(* are TLA+ strings.  A parsed tag is a function from the names of the     *)
(* attributes that are present to their values, like bs4's Tag.attrs.      *)
(***************************************************************************)
EXTENDS Integers, Sequences, FiniteSets, TLC

VARIABLES
  pc,           \* position of the run
  tag,          \* rule engine alone: the input tag under analysis
  field_data,   \* rule engine alone: the finished field_data of that tag
  args,         \* the parsed command line: url, output, verbose
  log_level,    \* level of the root logger
  html_content, \* {} before the fetch and for None, {text} for a returned text
  results,      \* the list analyze_form_fields returned
  stdout,       \* the lines printed so far
  log,          \* the notices logged so far
  exit_status,  \* {} while running, {n} once the process has ended
  file,         \* the output file: "untouched", "truncated" or the saved list
  requests_get, \* the URLs requested from the network so far
  analyzed,     \* the texts analyze_form_fields was called with so far
  saved         \* the outcomes of the save_results calls so far

vars == <<pc, tag, field_data, args, log_level, html_content, results, stdout,
          log, exit_status, file, requests_get, analyzed, saved>>

runVars == <<args, log_level, html_content, results, stdout, log, exit_status,
             file, requests_get, analyzed, saved>>

fieldVars == <<tag, field_data>>

----------------------------------------------------------------------------
(* Bounds *)

\* longest value attribute drawn over the e-mail alphabet
MaxValueLen == 6
\* longest value attribute drawn over the digit alphabet
MaxDigitsLen == 2
\* longest page, in tokens
MaxDocLen == 4

----------------------------------------------------------------------------
(* Character strings *)

\* the sentinel 'N/A' as a character sequence (main.py:52)
NA == <<"N", "/", "A">>

\* characters c with c.isdigit() true: ASCII digits, and the non-ASCII
\* digits U+00B2 SUPERSCRIPT TWO and U+0663 ARABIC-INDIC DIGIT THREE
AsciiDigits == {"0", "1", "2", "3", "4", "5", "6", "7", "8", "9"}
UnicodeDigits == {"U+00B2", "U+0663"}

\* str.isdigit(): every character is a digit and there is at least one
isdigit(s) == Len(s) > 0 /\ \A i \in 1..Len(s) : s[i] \in AsciiDigits \cup UnicodeDigits

\* the compiled pattern r"[^@]+@[^@]+\.[^@]+" as a sequence of items
EmailPattern ==
  << [cls |-> "not@", plus |-> TRUE],
     [cls |-> "@",    plus |-> FALSE],
     [cls |-> "not@", plus |-> TRUE],
     [cls |-> ".",    plus |-> FALSE],
     [cls |-> "not@", plus |-> TRUE] >>

InClass(c, cls) ==
  CASE cls = "not@" -> c # "@"
    [] cls = "@"    -> c = "@"
    [] cls = "."    -> c = "."

\* backtracking matcher: do the items k.. of the pattern match s from position p
RECURSIVE MatchFrom(_, _, _)
MatchFrom(s, k, p) ==
  IF k > Len(EmailPattern) THEN TRUE
  ELSE IF p > Len(s) THEN FALSE
  ELSE IF ~InClass(s[p], EmailPattern[k].cls) THEN FALSE
  ELSE IF EmailPattern[k].plus
       THEN MatchFrom(s, k, p + 1) \/ MatchFrom(s, k + 1, p + 1)
       ELSE MatchFrom(s, k + 1, p + 1)

\* variant: the pattern is searched for anywhere in the string
re_match_unanchored(s) == \E p \in 1..(Len(s) + 1) : MatchFrom(s, 1, p)

\* re.match semantics: a match must start at the first character
re_match(s) == MatchFrom(s, 1, 1)

----------------------------------------------------------------------------
(* Tags *)

\* Tag.get(key, default)
Get(t, key, default) == IF key \in DOMAIN t THEN t[key] ELSE default

\* Tag.has_attr(key)
has_attr(t, key) == key \in DOMAIN t

AttrNames == {"name", "type", "autocomplete", "required", "readonly",
              "disabled", "value", "placeholder"}

\* a tag from one option per attribute: {} is "absent", {x} is "present with x"
MkTag(opts) ==
  [k \in {a \in AttrNames : opts[a] # {}} |-> CHOOSE x \in opts[k] : TRUE]

----------------------------------------------------------------------------
(* The rule engine *)

EmailMsg == "Potential missing email validation."
NumericMsg == "Potential missing numerical validation."
AutocompleteMsg(type) ==
  "Autocomplete is enabled for sensitive field of type '" \o type
    \o "'.  This is generally discouraged"
RequiredMsg == "Missing 'required' attribute. Consider adding for important fields"

\* variant: an absent autocomplete attribute counts as "on"
Normalize_autocompleteOn(t) ==
  [ name            |-> Get(t, "name", "N/A"),
    type            |-> Get(t, "type", "text"),
    autocomplete    |-> Get(t, "autocomplete", "on"),
    required        |-> has_attr(t, "required"),
    readonly        |-> has_attr(t, "readonly"),
    disabled        |-> has_attr(t, "disabled"),
    value           |-> Get(t, "value", NA),
    placeholder     |-> Get(t, "placeholder", "N/A"),
    vulnerabilities |-> << >> ]

\* the field_data dictionary built from a tag
Normalize(t) ==
  [ name            |-> Get(t, "name", "N/A"),
    type            |-> Get(t, "type", "text"),
    autocomplete    |-> Get(t, "autocomplete", "off"),
    required        |-> has_attr(t, "required"),
    readonly        |-> has_attr(t, "readonly"),
    disabled        |-> has_attr(t, "disabled"),
    value           |-> Get(t, "value", NA),
    placeholder     |-> Get(t, "placeholder", "N/A"),
    vulnerabilities |-> << >> ]

Rule1(fd) == fd.type = "email" /\ fd.value # NA /\ ~re_match(fd.value)

\* variant: the numeric check also covers e-mail fields
Rule2_withEmail(fd) ==
  fd.type \in {"email", "number", "tel"} /\ fd.value # NA /\ ~isdigit(fd.value)

Rule2(fd) == fd.type \in {"number", "tel"} /\ fd.value # NA /\ ~isdigit(fd.value)

\* the if / elif of the two validation checks
ValidationFindings(fd) ==
  IF Rule1(fd) THEN <<EmailMsg>>
  ELSE IF Rule2(fd) THEN <<NumericMsg>>
  ELSE << >>

Rule3(fd) == fd.type \in {"password", "credit-card", "cvv"} /\ fd.autocomplete # "off"

Rule4(fd) == fd.type \notin {"hidden", "submit", "button"} /\ ~fd.required

\* variant: the required check runs before the autocomplete check
AnalyzeField_requiredFirst(t) ==
  LET fd == Normalize(t)
      v12 == ValidationFindings(fd)
      v3 == IF Rule3(fd) THEN <<AutocompleteMsg(fd.type)>> ELSE << >>
      v4 == IF Rule4(fd) THEN <<RequiredMsg>> ELSE << >>
  IN [fd EXCEPT !.vulnerabilities = v12 \o v4 \o v3]

\* the body of the loop over input fields: one tag to one finished field_data
AnalyzeField(t) ==
  LET fd == Normalize(t)
      v12 == ValidationFindings(fd)
      v3 == IF Rule3(fd) THEN <<AutocompleteMsg(fd.type)>> ELSE << >>
      v4 == IF Rule4(fd) THEN <<RequiredMsg>> ELSE << >>
  IN [fd EXCEPT !.vulnerabilities = v12 \o v3 \o v4]

----------------------------------------------------------------------------
(* The page: a sequence of tokens, as the tree builder sees it *)

FormOpen == <<"<form>">>
FormClose == <<"</form>">>
Text == <<"text">>
Input(t) == <<"<input>", t>>

IsInput(tok) == tok[1] = "<input>"

\* html.parser tree building, restricted to form elements: a start tag opens
\* an element under the innermost open one, an end tag closes the innermost
\* open form (a stray end tag is dropped), input is a void element, and the
\* end of the text closes whatever is still open.  The result maps the
\* position of each <form> start tag to the position where the form ends.
RECURSIVE BuildTree(_, _, _, _)
BuildTree(doc, i, stack, ends) ==
  IF i > Len(doc)
  THEN [o \in DOMAIN ends \cup {stack[k] : k \in 1..Len(stack)} |->
          IF o \in DOMAIN ends THEN ends[o] ELSE Len(doc) + 1]
  ELSE IF doc[i] = FormOpen
       THEN BuildTree(doc, i + 1, Append(stack, i), ends)
  ELSE IF doc[i] = FormClose /\ Len(stack) > 0
       THEN BuildTree(doc, i + 1, SubSeq(stack, 1, Len(stack) - 1),
                      [o \in DOMAIN ends \cup {stack[Len(stack)]} |->
                         IF o \in DOMAIN ends THEN ends[o] ELSE i])
  ELSE BuildTree(doc, i + 1, stack, ends)

BeautifulSoup(doc) == BuildTree(doc, 1, << >>, [o \in {} |-> 0])

\* the increasing sequence of the elements of a set of positions
RECURSIVE SortedSeq(_)
SortedSeq(S) ==
  IF S = {} THEN << >>
  ELSE LET m == CHOOSE x \in S : \A y \in S : x <= y
       IN <<m>> \o SortedSeq(S \ {m})

\* soup.find_all('form'): every form element, nested ones too, in document order
find_all_form(doc) == SortedSeq(DOMAIN BeautifulSoup(doc))

\* form.find_all('input'): every input below the form, in document order
find_all_input(doc, form) ==
  SortedSeq({j \in 1..Len(doc) :
               /\ IsInput(doc[j])
               /\ form < j
               /\ j < BeautifulSoup(doc)[form]})

Notice(level, text, url) == [level |-> level, text |-> text, url |-> url]

\* the inner loop: the fields of the inputs at the given positions
RECURSIVE FieldsOf(_, _)
FieldsOf(doc, inputs) ==
  IF inputs = << >> THEN << >>
  ELSE <<AnalyzeField(doc[Head(inputs)][2])>> \o FieldsOf(doc, Tail(inputs))

\* the outer loop: the fields of the forms at the given positions
RECURSIVE FieldsOfForms(_, _)
FieldsOfForms(doc, forms) ==
  IF forms = << >> THEN << >>
  ELSE FieldsOf(doc, find_all_input(doc, Head(forms)))
         \o FieldsOfForms(doc, Tail(forms))

RECURSIVE FieldWarnings(_, _)
FieldWarnings(fields, url) ==
  IF fields = << >> THEN << >>
  ELSE (IF Head(fields).vulnerabilities # << >>
        THEN <<Notice("WARNING", <<"Potential vulnerabilities found in field '",
                                   Head(fields).name, "' on ">>, url)>>
        ELSE << >>)
         \o FieldWarnings(Tail(fields), url)

\* analyze_form_fields: the returned list and the notices it logs
analyze_form_fields(doc, url) ==
  LET forms == find_all_form(doc)
      fields == FieldsOfForms(doc, forms)
  IN IF forms = << >>
     THEN [results |-> << >>,
           log |-> <<Notice("WARNING", <<"No forms found on ">>, url)>>]
     ELSE [results |-> fields, log |-> FieldWarnings(fields, url)]

----------------------------------------------------------------------------
(* The command line *)

HttpPrefix == <<"h", "t", "t", "p", ":", "/", "/">>
HttpsPrefix == <<"h", "t", "t", "p", "s", ":", "/", "/">>

\* str.startswith
startswith(s, prefix) ==
  Len(s) >= Len(prefix) /\ SubSeq(s, 1, Len(prefix)) = prefix

\* variant: only the scheme name is looked at
UrlRejected_schemeOnly(url) == ~startswith(url, <<"h", "t", "t", "p">>)

\* the input validation of main: TRUE when the URL is rejected
UrlRejected(url) == ~startswith(url, HttpPrefix) /\ ~startswith(url, HttpsPrefix)

\* truth value of an optional string held as {} (None) or {s}
Truthy(opt, empty) == opt # {} /\ opt # {empty}

ErrorLine == <<"Error: URL must start with http:// or https://">>
FailedLine == <<"Failed to fetch HTML content. Check the URL and your network connection.">>
NoFieldsLine == <<"No vulnerable form fields found.">>
HeaderLine == <<"Form field analysis results:">>

\* the six lines printed for one field
FieldLines(f) ==
  << <<"  Field Name: ", f.name>>,
     <<"    Type: ", f.type>>,
     <<"    Autocomplete: ", f.autocomplete>>,
     <<"    Required: ", IF f.required THEN "True" ELSE "False">>,
     IF f.vulnerabilities = << >>
       THEN <<"    Vulnerabilities: ", "None">>
       ELSE <<"    Vulnerabilities: [">> \o f.vulnerabilities \o <<"]">>,
     <<"--------------------">> >>

RECURSIVE ResultLines(_)
ResultLines(fields) ==
  IF fields = << >> THEN << >>
  ELSE FieldLines(Head(fields)) \o ResultLines(Tail(fields))

----------------------------------------------------------------------------
(* The run of main *)

\* lines 120-125: a rejected URL prints the error and exits with status 1
InvalidUrlExit ==
  /\ pc = "start"
  /\ UrlRejected(args.url)
  /\ stdout' = Append(stdout, ErrorLine)
  /\ exit_status' = {1}
  /\ pc' = "exited"
  /\ UNCHANGED <<fieldVars, args, log_level, html_content, results, log,
                 file, requests_get, analyzed, saved>>

\* lines 120-128: an accepted URL; the verbose flag sets the logger to DEBUG
AcceptUrl ==
  /\ pc = "start"
  /\ ~UrlRejected(args.url)
  /\ log_level' = IF args.verbose THEN "DEBUG" ELSE log_level
  /\ pc' = "fetch"
  /\ UNCHANGED <<fieldVars, args, html_content, results, stdout, log,
                 exit_status, file, requests_get, analyzed, saved>>

\* the generators of bounded inputs
RECURSIVE SeqsUpTo(_, _)
SeqsUpTo(S, n) ==
  IF n = 0 THEN {<< >>}
  ELSE LET shorter == SeqsUpTo(S, n - 1)
       IN shorter \cup {Append(s, c) : s \in {x \in shorter : Len(x) = n - 1}, c \in S}

Opt(S) == {{}} \cup {{x} : x \in S}

\* the input tags a page of the run is made of: an e-mail field with a
\* malformed value and no required attribute, and a hidden field
EmailTag ==
  MkTag([name |-> {"email"}, type |-> {"email"}, autocomplete |-> {},
         required |-> {}, readonly |-> {}, disabled |-> {},
         value |-> {<<"a", "@">>}, placeholder |-> {}])
HiddenTag ==
  MkTag([name |-> {}, type |-> {"hidden"}, autocomplete |-> {},
         required |-> {}, readonly |-> {}, disabled |-> {},
         value |-> {<<"1">>}, placeholder |-> {}])

Tokens == {FormOpen, FormClose, Text, Input(EmailTag), Input(HiddenTag)}

\* the texts a fetch can return; << >> is the empty text
Documents == SeqsUpTo(Tokens, MaxDocLen)

\* fetch_html_content: the text of the response, or an error notice and None
FetchHtmlContent ==
  /\ pc = "fetch"
  /\ requests_get' = Append(requests_get, args.url)
  /\ \/ \E doc \in Documents :
          /\ html_content' = {doc}
          /\ log' = log
     \/ /\ html_content' = {}
        /\ log' = Append(log, Notice("ERROR", <<"Error fetching URL ">>, args.url))
  /\ pc' = "fetched"
  /\ UNCHANGED <<fieldVars, args, log_level, results, stdout, exit_status, file,
                 analyzed, saved>>

\* lines 132-133: a true html_content is analysed
AnalyzeFormFields ==
  /\ pc = "fetched"
  /\ Truthy(html_content, << >>)
  /\ \E doc \in html_content :
       LET r == analyze_form_fields(doc, args.url)
       IN /\ results' = r.results
          /\ log' = log \o r.log
          /\ analyzed' = Append(analyzed, doc)
  /\ pc' = "analyzed"
  /\ UNCHANGED <<fieldVars, args, log_level, html_content, stdout, exit_status,
                 file, requests_get, saved>>

\* lines 150-151: a false html_content ends the run with the failure message
FailedToFetch ==
  /\ pc = "fetched"
  /\ ~Truthy(html_content, << >>)
  /\ stdout' = Append(stdout, FailedLine)
  /\ exit_status' = {0}
  /\ pc' = "done"
  /\ UNCHANGED <<fieldVars, args, log_level, html_content, results, log, file,
                 requests_get, analyzed, saved>>

\* lines 135-145: a non-empty result list is printed, field by field
PrintResults ==
  /\ pc = "analyzed"
  /\ results # << >>
  /\ stdout' = stdout \o <<HeaderLine>> \o ResultLines(results)
  /\ IF Truthy(args.output, "")
       THEN pc' = "save" /\ exit_status' = exit_status
       ELSE pc' = "done" /\ exit_status' = {0}
  /\ UNCHANGED <<fieldVars, args, log_level, html_content, results, log, file,
                 requests_get, analyzed, saved>>

\* lines 147-148: an empty result list
NoFieldsFound ==
  /\ pc = "analyzed"
  /\ results = << >>
  /\ stdout' = Append(stdout, NoFieldsLine)
  /\ exit_status' = {0}
  /\ pc' = "done"
  /\ UNCHANGED <<fieldVars, args, log_level, html_content, results, log, file,
                 requests_get, analyzed, saved>>

\* variant: the IOError is not caught and ends the run
SaveResults_uncaught ==
  /\ pc = "save"
  /\ \E filename \in args.output :
       \/ /\ file' = <<"json", results>>
          /\ log' = Append(log, Notice("INFO", <<"Results saved to ", filename>>, << >>))
          /\ saved' = Append(saved, "ok")
          /\ exit_status' = {0}
          /\ pc' = "done"
       \/ /\ file' \in {file, <<"truncated">>}
          /\ log' = log
          /\ saved' = Append(saved, IF file' = file THEN "open failed" ELSE "write failed")
          /\ exit_status' = {1}
          /\ pc' = "exited"
  /\ UNCHANGED <<fieldVars, args, log_level, html_content, results, stdout,
                 requests_get, analyzed>>

\* save_results: the write succeeds, or open() or the write raises IOError,
\* which is caught and logged
SaveResults ==
  /\ pc = "save"
  /\ \E filename \in args.output :
       \/ /\ file' = <<"json", results>>
          /\ log' = Append(log, Notice("INFO", <<"Results saved to ", filename>>, << >>))
          /\ saved' = Append(saved, "ok")
       \/ /\ file' = file
          /\ log' = Append(log, Notice("ERROR", <<"Error saving results to ", filename>>, << >>))
          /\ saved' = Append(saved, "open failed")
       \/ /\ file' = <<"truncated">>
          /\ log' = Append(log, Notice("ERROR", <<"Error saving results to ", filename>>, << >>))
          /\ saved' = Append(saved, "write failed")
  /\ exit_status' = {0}
  /\ pc' = "done"
  /\ UNCHANGED <<fieldVars, args, log_level, html_content, results, stdout,
                 requests_get, analyzed>>

Urls ==
  { <<"h", "t", "t", "p", ":", "/", "/", "a">>,
    <<"h", "t", "t", "p", "s", ":", "/", "/", "a">>,
    <<"h", "t", "t", "p", ":", "/", "a">>,
    <<"f", "t", "p", ":", "/", "/", "a">>,
    <<"a", "h", "t", "t", "p", ":", "/", "/">>,
    << >> }

NoField == [vulnerabilities |-> << >>]

\* the state after setup_argparse
Init ==
  /\ pc = "start"
  /\ args \in [url : Urls, output : Opt({"", "out.json"}), verbose : BOOLEAN]
  /\ log_level = "INFO"
  /\ html_content = {}
  /\ results = << >>
  /\ stdout = << >>
  /\ log = << >>
  /\ exit_status = {}
  /\ file = <<"untouched">>
  /\ requests_get = << >>
  /\ analyzed = << >>
  /\ saved = << >>
  /\ tag = EmailTag
  /\ field_data = NoField

Next ==
  \/ InvalidUrlExit
  \/ AcceptUrl
  \/ FetchHtmlContent
  \/ AnalyzeFormFields
  \/ FailedToFetch
  \/ PrintResults
  \/ NoFieldsFound
  \/ SaveResults

Spec == Init /\ [][Next]_vars

----------------------------------------------------------------------------
(* The rule engine alone, over a larger set of tags *)

TypeValues == {"email", "number", "tel", "password", "credit-card", "cvv",
               "hidden", "submit", "button", "text", "EMAIL"}

ValueValues ==
  SeqsUpTo({"a", "@", "."}, MaxValueLen)
    \cup SeqsUpTo({"1", "a", "U+00B2"}, MaxDigitsLen)
    \cup {NA}

FieldTags ==
  { MkTag([name |-> n, type |-> t, autocomplete |-> a, required |-> r,
           readonly |-> {}, disabled |-> {}, value |-> v, placeholder |-> {}]) :
      n \in Opt({"user"}), t \in Opt(TypeValues), a \in Opt({"off", "on"}),
      r \in Opt({""}), v \in Opt(ValueValues) }

FieldInit ==
  /\ pc = "field"
  /\ tag \in FieldTags
  /\ field_data = NoField
  /\ args = [url |-> << >>, output |-> {}, verbose |-> FALSE]
  /\ log_level = "INFO"
  /\ html_content = {}
  /\ results = << >>
  /\ stdout = << >>
  /\ log = << >>
  /\ exit_status = {}
  /\ file = <<"untouched">>
  /\ requests_get = << >>
  /\ analyzed = << >>
  /\ saved = << >>

\* one pass of the loop body over the tag
Analyze ==
  /\ pc = "field"
  /\ field_data' = AnalyzeField(tag)
  /\ pc' = "field done"
  /\ UNCHANGED <<tag, runVars>>

FieldNext == Analyze

FieldSpec == FieldInit /\ [][FieldNext]_vars

----------------------------------------------------------------------------
(* Properties *)

Range(s) == {s[i] : i \in 1..Len(s)}

Findings == field_data.vulnerabilities

\* v is obtained from l by deleting elements
IsSubsequence(v, l) ==
  \E f \in [1..Len(v) -> 1..Len(l)] :
    /\ \A i \in 1..Len(v) : v[i] = l[f[i]]
    /\ \A i, j \in 1..Len(v) : i < j => f[i] < f[j]

NoDuplicates(v) == \A i, j \in 1..Len(v) : i # j => v[i] # v[j]

\* C1: the findings of an analysed field are a duplicate-free subsequence of
\* [email, numeric, autocomplete, missing-required], in that order, and never
\* hold both the email and the numeric message.
C1_FindingsOrder ==
  pc = "field done" =>
    /\ IsSubsequence(Findings, <<EmailMsg, NumericMsg,
                                 AutocompleteMsg(field_data.type), RequiredMsg>>)
    /\ NoDuplicates(Findings)
    /\ ~(EmailMsg \in Range(Findings) /\ NumericMsg \in Range(Findings))

C1_Witness ==
  /\ pc = "field done"
  /\ Findings = <<AutocompleteMsg("cvv"), RequiredMsg>>

\* some s[p..e] has the shape  non-@s, "@", non-@s, ".", non-@s
ShapeFrom(s, p) ==
  \E at, dot, e \in 1..Len(s) :
    /\ p < at /\ at + 1 < dot /\ dot < e
    /\ s[at] = "@" /\ s[dot] = "."
    /\ \A q \in p..e : q # at => s[q] # "@"

ShapeAnywhere(s) == \E p \in 1..Len(s) : ShapeFrom(s, p)

\* C2 as stated: an email field with a value gets the email message iff no
\* substring of the value, starting at any position, has the e-mail shape;
\* other fields never get it.
C2_SubstringMatch ==
  pc = "field done" =>
    IF field_data.type = "email" /\ field_data.value # NA
    THEN (EmailMsg \in Range(Findings)) <=> ~ShapeAnywhere(field_data.value)
    ELSE EmailMsg \notin Range(Findings)

\* C2 amended: an email field with a value gets the email message iff no
\* prefix of the value, starting at its first character, has the e-mail
\* shape; other fields never get it.
C2_PrefixMatch ==
  pc = "field done" =>
    IF field_data.type = "email" /\ field_data.value # NA
    THEN (EmailMsg \in Range(Findings)) <=> ~ShapeFrom(field_data.value, 1)
    ELSE EmailMsg \notin Range(Findings)

C2_Witness ==
  /\ pc = "field done"
  /\ field_data.type = "email"
  /\ field_data.value = <<"@", "a", "@", "a", ".", "a">>
  /\ EmailMsg \in Range(Findings)

\* C3: a number or tel field with a value gets the numeric message iff the
\* value is not made of the characters 0-9 only (the empty value gets it).
C3_AsciiDigits ==
  pc = "field done" /\ field_data.type \in {"number", "tel"} /\ field_data.value # NA =>
    ((NumericMsg \in Range(Findings)) <=>
       ~(/\ Len(field_data.value) > 0
         /\ \A i \in 1..Len(field_data.value) : field_data.value[i] \in AsciiDigits))

\* C8: the autocomplete message appears iff the type is sensitive and the
\* autocomplete attribute (absent: "off") is not "off"; the missing-required
\* message appears iff the type is not hidden, submit or button and the
\* required attribute is absent; the value and rules 1-2 play no part.
C8_Rules3And4 ==
  pc = "field done" =>
    LET type == IF "type" \in DOMAIN tag THEN tag["type"] ELSE "text"
        autocomplete == IF "autocomplete" \in DOMAIN tag THEN tag["autocomplete"] ELSE "off"
    IN /\ (AutocompleteMsg(type) \in Range(Findings)) <=>
            (type \in {"password", "credit-card", "cvv"} /\ autocomplete # "off")
       /\ (RequiredMsg \in Range(Findings)) <=>
            (type \notin {"hidden", "submit", "button"} /\ "required" \notin DOMAIN tag)

\* Scenario A of the specification
C8_Witness ==
  /\ pc = "field done"
  /\ field_data.type = "password" /\ field_data.autocomplete = "on" /\ field_data.required
  /\ Findings = <<AutocompleteMsg("password")>>

\* an analyzer with rules 1 and 2 as two independent checks
IndependentFindings(t) ==
  LET fd == Normalize(t)
  IN (IF Rule1(fd) THEN <<EmailMsg>> ELSE << >>)
       \o (IF Rule2(fd) THEN <<NumericMsg>> ELSE << >>)
       \o (IF Rule3(fd) THEN <<AutocompleteMsg(fd.type)>> ELSE << >>)
       \o (IF Rule4(fd) THEN <<RequiredMsg>> ELSE << >>)

\* C9: chaining rule 2 behind rule 1 changes nothing: the findings equal those
\* of an analyzer that evaluates rules 1 and 2 independently.
C9_ChainUnobservable ==
  pc = "field done" => Findings = IndependentFindings(tag)

\* rule 1 triggered on a value that is not all digits: the chain skipped rule 2
C9_Witness ==
  /\ pc = "field done"
  /\ field_data.type = "email"
  /\ field_data.value = <<"a", "@">>
  /\ Findings = <<EmailMsg, RequiredMsg>>

InSomeForm(doc, j) ==
  \E o \in DOMAIN BeautifulSoup(doc) : o < j /\ j < BeautifulSoup(doc)[o]

\* C4: the result has exactly one record per input inside at least one form,
\* in document order, also when forms are nested.
C4_OneRecordPerInput ==
  analyzed # << >> =>
    LET doc == analyzed[1]
    IN results = FieldsOf(doc, SortedSeq({j \in 1..Len(doc) :
                                            IsInput(doc[j]) /\ InSomeForm(doc, j)}))

\* C5: a run whose URL starts with neither http:// nor https:// prints the
\* error and ends with a non-zero status; it never fetches, analyses, prints
\* results or writes the file, whatever the verbose flag.
C5_InvalidUrl ==
  ~startswith(args.url, HttpPrefix) /\ ~startswith(args.url, HttpsPrefix) =>
    /\ requests_get = << >> /\ analyzed = << >> /\ saved = << >>
    /\ results = << >> /\ file = <<"untouched">> /\ log = << >>
    /\ pc \in {"start", "exited"}
    /\ pc = "start" => stdout = << >> /\ exit_status = {}
    /\ pc = "exited" => stdout = <<ErrorLine>> /\ exit_status = {1}

C5_Witness ==
  /\ pc = "exited"
  /\ args.verbose
  /\ args.url = <<"h", "t", "t", "p", ":", "/", "a">>
  /\ exit_status = {1}

\* C6: a finished run printed the failed-to-fetch message and analysed nothing
\* iff the fetch failed; a fetch that returned a text, whatever the text, was
\* followed by the analysis of that text and not by the message.
C6_FailedIffFetchFailure ==
  pc = "done" =>
    /\ (FailedLine \in Range(stdout) /\ analyzed = << >>) <=> (html_content = {})
    /\ \A doc \in html_content :
         analyzed = <<doc>> /\ FailedLine \notin Range(stdout)

\* C7: a failed write is logged as an error and save_results returns: the
\* results are those the analysis returned, every console line was printed
\* before the write was attempted, and the run ends with status 0.
C7_WriteFailure ==
  /\ pc = "save" => stdout = <<HeaderLine>> \o ResultLines(results)
  /\ saved # << >> /\ saved[1] # "ok" =>
       /\ pc = "done" /\ exit_status = {0}
       /\ log[Len(log)].level = "ERROR"
       /\ results = analyze_form_fields(analyzed[1], args.url).results
       /\ stdout = <<HeaderLine>> \o ResultLines(results)

C7_Witness ==
  /\ pc = "done"
  /\ saved = <<"write failed">>
  /\ file = <<"truncated">>
  /\ Len(results) = 2

\* C10: save_results is called at most once, and only with the output flag
\* and a non-empty result; a run whose fetch returned a text but whose result
\* is empty prints "No vulnerable form fields found." and leaves the file alone.
C10_SaveOnlyWithResults ==
  /\ Len(saved) <= 1
  /\ saved # << >> => args.output # {} /\ results # << >>
  /\ pc = "done" /\ html_content # {} /\ results = << >> =>
       NoFieldsLine \in Range(stdout) /\ file = <<"untouched">> /\ saved = << >>

====
